---- MODULE Spec2Model ----
(***************************************************************************)
(* A model of the fetch engine of main.ipynb:                              *)
(*   - scrape_github_repositories, the paginated search collector with its *)
(*     rate-limit wait (specification Spec);                               *)
(*   - the two ThreadPoolExecutor stages of main() that run                *)
(*     fetch_user_details / fetch_organization_data (specification         *)
(*     SpecDetail).                                                        *)
(* Time is counted in ticks, TicksPerSecond ticks to the second, so that   *)
(* time.time() can fall between two whole seconds while the reset header   *)
(* is a whole number of seconds.                                           *)
(***************************************************************************)
EXTENDS Integers, Sequences, FiniteSets, TLC

\* ------------------------------------------------------------- bounds
\* search_queries has at most MaxQueries queries, and a run sends at most
\* MaxRequests requests: Len(search_queries) * pages <= MaxRequests.
MaxQueries == 2
MaxRequests == 5
\* A page brings 0..MaxItems items.
MaxItems == 1
\* At most MaxExhausted responses of a run report no remaining quota.
MaxExhausted == 1
\* The resolution of the clock, and the second at which a run starts.
TicksPerSecond == 2
StartSecond == 100
\* The sizes of the lists of users and of organizations, and of the pool.
\* A pool of at least as many workers as identifiers behaves as the pool
\* of 100 of main() does on such a list: no task ever waits for a worker.
MaxUsers == 3
MaxOrganizations == 2
MaxWorkers == 2

\* ------------------------------------------------- program constants
PerPage == 100
UserTokenSplit == 4000
DefaultWorkers == 100

\* ------------------------------------------------------------ helpers
Max(a, b) == IF a >= b THEN a ELSE b

Last(s) == s[Len(s)]

\* Mutant of HeaderInt: a header that is absent reads as 1.
HeaderIntOne(h) == IF h = <<>> THEN 1 ELSE h[1]

\* A response header: <<>> when the response does not carry it, <<v>> when
\* it carries the integer v.  HeaderInt is int(headers.get(name, 0)).
HeaderInt(h) == IF h = <<>> THEN 0 ELSE h[1]

\* The search queries of main(), in order (the first of them).
QueryList == <<"front-end", "back-end", "full-stack", "web-development",
               "mobile-development", "data-science">>

\* ------------------------------------------------------------- state
VARIABLES
    search_queries,     \* the search_queries argument
    pages,              \* the pages argument
    qi,                 \* position in search_queries of the loop variable query
    page,               \* the loop variable page
    pc,                 \* where scrape_github_repositories stands
    response,           \* the response of the last requests.get that returned one
    result,             \* the kind of outcome of the last requests.get
    repositories_list,  \* the accumulator
    clock,              \* time.time(), in ticks
    wakeAt,             \* the tick at which the last time.sleep ends
    limit,              \* what the last rate-limit check read and decided
    payload,            \* the params of the current requests.get
    issuedAt,           \* the tick at which the current requests.get was sent
    requests,           \* every requests.get issued so far, with its outcome
    exhausted,          \* how many responses reported no remaining quota
    users,              \* main: the users list of analyze_users_and_organizations
    organizations,      \* main: the organizations list
    max_workers,        \* the max_workers of the ThreadPoolExecutor
    stage,              \* main: which detail stage runs
    mpc,                \* main: where it stands in the stage
    future_tasks,       \* the futures of the stage, in submission order
    gathered,           \* how many futures the result comprehension has read
    all_user_details,   \* main: the list built from the user futures
    all_organizations_data, \* main: the list built from the organization futures
    users_csv,          \* the file users_data.csv
    organizations_csv,  \* the file organizations_data.csv
    quota,              \* per token: the latest reset tick a detail response
                        \* with no remaining quota reported (0: none did)
    overrun,            \* a detail request was sent on a token before its
                        \* reported reset tick
    stuck,              \* the task whose requests.get never returns (0: none)
    first,              \* the position in main's users list of the first user
                        \* of users: users is that list from there on
    token_1,            \* the environment variable token_1
    token_2,            \* the environment variable token_2
    main_pc,            \* where main stands before the detail stages
    repositories_csv,   \* the file repositories_data.csv
    repo,               \* row mapping: the raw repository record
    record              \* row mapping: the row built from repo

cvars == <<search_queries, pages, qi, page, pc, response, result, repositories_list,
           clock, wakeAt, limit, payload, issuedAt, requests, exhausted>>

dvars == <<users, organizations, max_workers, stage, mpc, future_tasks, gathered,
           all_user_details, all_organizations_data, users_csv, organizations_csv>>

evars == <<quota, overrun, stuck, first>>

mvars == <<token_1, token_2, main_pc, repositories_csv>>

pvars == <<repo, record>>

\* What the steps of scrape_github_repositories leave alone, and what the
\* steps of a detail stage leave alone besides dvars and evars.
offCollector == <<dvars, evars, mvars, pvars>>
offDetail == <<cvars, mvars, pvars>>

vars == <<cvars, dvars, evars, mvars, pvars>>

\* The kinds of outcome of requests.get + raise_for_status + json().get:
\*   ok            2xx with a JSON object body
\*   http_error    non-2xx: raise_for_status raises HTTPError
\*   network_error no response: requests.get raises ConnectionError/Timeout
\*   not_json      2xx whose body is not JSON: json() raises
\*                 requests.exceptions.JSONDecodeError
\*   not_object    2xx whose JSON body is not an object: .get raises
\*                 AttributeError
Kinds == {"ok", "http_error", "network_error", "not_json", "not_object"}

\* The kinds that raise a requests.exceptions.RequestException.
RequestException == {"http_error", "network_error", "not_json"}

\* What the log of requests keeps of a kind: the request succeeded, failed
\* with a RequestException, or raised another exception.
Outcome(kind) == IF kind = "ok" THEN "ok"
                 ELSE IF kind \in RequestException THEN "failed" ELSE "raised"

\* The kinds that come with response headers.
HasHeaders(kind) == kind # "network_error"

NoResponse == [kind |-> "none", n |-> 0, remaining |-> <<>>, reset |-> <<>>]

NoLimit == [checked |-> FALSE, remaining |-> 0, reset_time |-> 0, now |-> 0,
            sleep_duration |-> 0, waited |-> FALSE, slept |-> 0]

\* The items of page p of the query at position i, n of them.
PageItems(i, p, n) == [j \in 1..n |-> <<i, p, j>>]

\* The quota headers the API may send when the clock shows c ticks, as the
\* pair <<X-RateLimit-Remaining, X-RateLimit-Reset>>: neither header, or a
\* remaining count alone, or a remaining count with a reset time that is the
\* second c falls in, the second before it, or half a minute ahead.
ResetOffsets == {-1, 0, 30}
QuotaHeaders(c) ==
    {<<<<>>, <<>>>>, <<<<0>>, <<>>>>}
    \cup {<<<<r>>, <<(c \div TicksPerSecond) + d>>>> : r \in {0, 1}, d \in ResetOffsets}

\* ------------------------------------------------------ the collector
\* Mutant of TokenOf: the user at position 4000 still gets access_token_1.
TokenOfInclusive(st, i) ==
    IF st = "search" \/ (st = "users" /\ i <= UserTokenSplit) THEN 1 ELSE 2

\* Which of the two tokens a request is sent with: access_token_1 for the
\* search requests, access_token_1 if i < 4000 else access_token_2 for the
\* i-th (from 0) user, access_token_2 for every organization.
TokenOf(st, i) ==
    IF st = "search" \/ (st = "users" /\ i < UserTokenSplit) THEN 1 ELSE 2

\* Mutant of Extend: the items are put in front of the accumulator.
ExtendFront(list, items) == IF items # <<>> THEN items \o list ELSE list

\* if items: repositories_list.extend(items)
Extend(list, items) == IF items # <<>> THEN list \o items ELSE list

\* Mutant of AfterPage: the page loop runs one page past pages.
AfterPageExtra(i, p) == IF p <= pages THEN <<i, p + 1>> ELSE <<i + 1, 1>>

\* Mutant of AfterPage: range(1, pages) instead of range(1, pages + 1).
AfterPageShort(i, p) == IF p + 1 < pages THEN <<i, p + 1>> ELSE <<i + 1, 1>>

\* The loop variables after the body ran to its end without break.
AfterPage(i, p) == IF p < pages THEN <<i, p + 1>> ELSE <<i + 1, 1>>

\* Mutant of AfterBreak: the failed page is requested again.
AfterBreakRetry(i, p) == <<i, p>>

\* Mutant of AfterBreak: continue instead of break.
AfterBreakContinue(i, p) == AfterPage(i, p)

\* The loop variables after break left the inner loop.
AfterBreak(i, p) == <<i + 1, 1>>

\* Mutant of Abandons: an empty page ends the query like a failure.
AbandonsOnEmpty(kind, n) == kind \in RequestException \/ n = 0

\* Whether the try block of this response ends in the except clause.
Abandons(kind, n) == kind \in RequestException

\* Mutant of SleepDuration: the second of margin is left out.
SleepDurationNoMargin(reset_time, now) == reset_time * TicksPerSecond - now

\* sleep_duration = reset_time - time.time() + 1, in ticks
SleepDuration(reset_time, now) == reset_time * TicksPerSecond - now + TicksPerSecond

\* Mutant of NeedsWait: no wait after the last page of the last query.
NeedsWaitIfMore(remaining) ==
    remaining = 0 /\ ~(qi = Len(search_queries) /\ page = pages)

\* if remaining == 0
NeedsWait(remaining) == remaining = 0

\* Mutant of SleepArg: the duration is passed on without max(., 0).
SleepArgRaw(d) == d

\* the argument of time.sleep
SleepArg(d) == Max(d, 0)

\* Mutant of SleepEnd: the sleep returns at once.
SleepEndNoWait(now, arg) == now

\* The clock when time.sleep(arg), called at tick now, returns.
SleepEnd(now, arg) == now + arg

NoCsv == [written |-> FALSE, rows |-> <<>>]

\* The detail stages before main reaches them.
DetailIdle ==
    /\ users = <<>>
    /\ organizations = <<>>
    /\ max_workers = 1
    /\ stage = "idle"
    /\ mpc = "idle"
    /\ future_tasks = <<>>
    /\ gathered = 0
    /\ all_user_details = <<>>
    /\ all_organizations_data = <<>>
    /\ users_csv = NoCsv
    /\ organizations_csv = NoCsv

\* No detail response has been seen, and every requests.get returns.
QuotaIdle ==
    /\ quota = [c \in {1, 2} |-> 0]
    /\ overrun = FALSE

\* Every requests.get returns, and users is the whole list of main.
PoolWhole ==
    /\ stuck = 0
    /\ first = 0

\* The function under study is called on its own, with both tokens at hand.
MainIdle ==
    /\ token_1 = "ghp_1"
    /\ token_2 = "ghp_2"
    /\ main_pc = "none"
    /\ repositories_csv = NoCsv

NoRepo == [name |-> "none"]
NoRecord == [status |-> "none"]

PureIdle ==
    /\ repo = NoRepo
    /\ record = NoRecord

Init ==
    /\ DetailIdle
    /\ QuotaIdle
    /\ PoolWhole
    /\ MainIdle
    /\ PureIdle
    /\ search_queries \in {SubSeq(QueryList, 1, k) : k \in 0..MaxQueries}
    /\ pages \in 1..MaxRequests
    /\ Len(search_queries) * pages <= MaxRequests
    /\ qi = 1
    /\ page = 1
    /\ pc = "loop"
    /\ response = NoResponse
    /\ result = "none"
    /\ repositories_list = <<>>
    /\ clock \in {StartSecond * TicksPerSecond, StartSecond * TicksPerSecond + 1}
    /\ wakeAt = 0
    /\ limit = NoLimit
    /\ payload = [q |-> "", per_page |-> 0, page |-> 0]
    /\ issuedAt = 0
    /\ requests = <<>>
    /\ exhausted = 0

\* requests.get(url, headers=headers, params=payload) is sent.
Request ==
    /\ pc = "loop"
    /\ qi <= Len(search_queries)
    /\ payload' = [q |-> search_queries[qi], per_page |-> PerPage, page |-> page]
    /\ issuedAt' = clock
    /\ requests' = Append(requests,
          [qi |-> qi, page |-> page, token |-> TokenOf("search", Len(requests)),
           outcome |-> "pending", n |-> 0])
    /\ pc' = "awaiting"
    /\ UNCHANGED <<search_queries, pages, qi, page, response, result,
                   repositories_list, clock, wakeAt, limit, exhausted>>
    /\ UNCHANGED offCollector

\* One pass through the body of the page loop once requests.get returned or
\* raised.  The try block: raise_for_status and json().get('items', []) run
\* and the items are appended, or the except clause breaks out of the page
\* loop, or the AttributeError of a body that is no JSON object leaves the
\* function.  Then "Handle rate limiting": remaining is read, and when it is 0
\* the reset time and the clock are read and
\* time.sleep(max(sleep_duration, 0)) is called.
Receive ==
    /\ pc = "awaiting"
    /\ \E kind \in Kinds, n \in 0..MaxItems, hdr \in QuotaHeaders(clock) :
        LET rem == hdr[1]
            rst == hdr[2]
            remaining == HeaderInt(rem)
            reset_time == HeaderInt(rst)
            sleep_duration == SleepDuration(reset_time, clock)
        IN
        /\ kind # "ok" => n = 0
        /\ ~HasHeaders(kind) => hdr = <<<<>>, <<>>>>
        /\ (HasHeaders(kind) /\ remaining = 0) => exhausted < MaxExhausted
        /\ exhausted' = IF HasHeaders(kind) /\ remaining = 0
                        THEN exhausted + 1 ELSE exhausted
        /\ result' = kind
        /\ response' = IF HasHeaders(kind)
                       THEN [kind |-> kind, n |-> n, remaining |-> rem, reset |-> rst]
                       ELSE response
        /\ repositories_list' = IF kind = "ok"
                                THEN Extend(repositories_list, PageItems(qi, page, n))
                                ELSE repositories_list
        /\ requests' = [requests EXCEPT ![Len(requests)] =
                            [@ EXCEPT !.outcome = Outcome(kind), !.n = n]]
        /\ IF Abandons(kind, n)
           THEN /\ qi' = AfterBreak(qi, page)[1]
                /\ page' = AfterBreak(qi, page)[2]
                /\ pc' = "loop"
                /\ UNCHANGED <<limit, wakeAt>>
           ELSE IF kind = "not_object"
           THEN /\ pc' = "raised"
                /\ UNCHANGED <<qi, page, limit, wakeAt>>
           ELSE IF NeedsWait(remaining)
           THEN /\ limit' = [checked |-> TRUE, remaining |-> remaining,
                             reset_time |-> reset_time, now |-> clock,
                             sleep_duration |-> sleep_duration,
                             waited |-> TRUE, slept |-> SleepArg(sleep_duration)]
                /\ wakeAt' = SleepEnd(clock, SleepArg(sleep_duration))
                /\ pc' = "sleeping"
                /\ UNCHANGED <<qi, page>>
           ELSE /\ limit' = [checked |-> TRUE, remaining |-> remaining,
                             reset_time |-> 0, now |-> clock,
                             sleep_duration |-> 0,
                             waited |-> FALSE, slept |-> 0]
                /\ qi' = AfterPage(qi, page)[1]
                /\ page' = AfterPage(qi, page)[2]
                /\ pc' = "loop"
                /\ UNCHANGED wakeAt
    /\ UNCHANGED <<search_queries, pages, clock, payload, issuedAt>>
    /\ UNCHANGED offCollector

\* time.sleep returns; the page loop goes on.
Wake ==
    /\ pc = "sleeping"
    /\ clock' = wakeAt
    /\ qi' = AfterPage(qi, page)[1]
    /\ page' = AfterPage(qi, page)[2]
    /\ pc' = "loop"
    /\ UNCHANGED <<search_queries, pages, response, result, repositories_list, wakeAt,
                   limit, payload, issuedAt, requests, exhausted>>
    /\ UNCHANGED offCollector

\* Both loops are over: return repositories_list.
Return ==
    /\ pc = "loop"
    /\ qi > Len(search_queries)
    /\ pc' = "done"
    /\ UNCHANGED <<search_queries, pages, qi, page, response, result,
                   repositories_list, clock, wakeAt, limit, payload, issuedAt,
                   requests, exhausted>>
    /\ UNCHANGED offCollector

Next == Request \/ Receive \/ Wake \/ Return

Spec == Init /\ [][Next]_vars


\* -------------------------------------------------- the detail stages
\* The owners main looks up (the first of them), as analyze returns them:
\* without repeats.
UserNames == <<"alice", "bob", "carol", "dave", "erin">>
OrganizationNames == <<"acme", "bolt", "core", "dyne">>

\* What a future holds: nothing yet, the None or the dict its function
\* returned, or the exception its function raised.
Pending == [kind |-> "pending", name |-> ""]
None == [kind |-> "none", name |-> ""]
Dict(name) == [kind |-> "dict", name |-> name]
Raised == [kind |-> "exception", name |-> ""]

\* The identifiers of the running stage.
Identifiers == IF stage = "users" THEN users ELSE organizations

\* Mutant of TaskResult: the except clauses catch RequestException only, so
\* the AttributeError of a body that is no JSON object leaves the function.
TaskResultUncaught(kind, name) ==
    IF kind = "ok" THEN Dict(name)
    ELSE IF kind = "not_object" THEN Raised ELSE None

\* fetch_user_details / fetch_organization_data once requests.get returned or
\* raised: the dict built from the body, or None after any of the three
\* except clauses.
TaskResult(kind, name) == IF kind = "ok" THEN Dict(name) ELSE None

\* Mutant of Ready: the result is read without waiting for the task.
ReadyAlways(t) == TRUE

\* future.result() blocks until the task is done.
Ready(t) == t.state = "done"

\* Mutant of Kept: the comprehension has no filter.
KeptAll(r) == TRUE

\* if future.result() is not None
Kept(r) == r.kind # "none"

Running == {t \in 1..Len(future_tasks) : future_tasks[t].state = "running"}
Queued == {t \in 1..Len(future_tasks) : future_tasks[t].state = "queued"}
AllDone == \A t \in 1..Len(future_tasks) : future_tasks[t].state = "done"

\* Mutant of WorkerFree: the executor starts a thread for every work item.
WorkerAlwaysFree == TRUE

\* Mutant of WorkerFree: one worker thread, whatever max_workers is.
WorkerFreeSingle == Running = {}

\* ThreadPoolExecutor(max_workers=...): a work item is taken up only while
\* fewer than max_workers worker threads are busy.
WorkerFree == Cardinality(Running) < max_workers

DetailEntry ==
    /\ search_queries = <<>>
    /\ pages = 1
    /\ qi = 1
    /\ page = 1
    /\ pc = "done"
    /\ response = NoResponse
    /\ result = "none"
    /\ repositories_list = <<>>
    /\ clock = StartSecond * TicksPerSecond
    /\ wakeAt = 0
    /\ limit = NoLimit
    /\ payload = [q |-> "", per_page |-> 0, page |-> 0]
    /\ issuedAt = 0
    /\ requests = <<>>
    /\ exhausted = 0
    /\ users \in {SubSeq(UserNames, 1, k) : k \in 0..MaxUsers}
    /\ organizations \in {SubSeq(OrganizationNames, 1, k) : k \in 0..MaxOrganizations}
    /\ max_workers \in (1..MaxWorkers) \cup {DefaultWorkers}
    /\ stage = "users"
    /\ mpc = "pool"
    /\ future_tasks = <<>>
    /\ gathered = 0
    /\ all_user_details = <<>>
    /\ all_organizations_data = <<>>
    /\ users_csv = NoCsv
    /\ organizations_csv = NoCsv
    /\ QuotaIdle
    /\ MainIdle
    /\ PureIdle

InitDetail == DetailEntry /\ PoolWhole

\* executor.submit(fetch_..., name, token) for the next identifier.
Submit ==
    /\ mpc = "pool"
    /\ Len(future_tasks) < Len(Identifiers)
    /\ LET i == Len(future_tasks)
           position == IF stage = "users" THEN first + i ELSE i
       IN future_tasks' = Append(future_tasks,
              [name |-> Identifiers[i + 1], token |-> TokenOf(stage, position),
               state |-> "queued", outcome |-> "none", result |-> Pending])
    /\ UNCHANGED <<users, organizations, max_workers, stage, mpc, gathered,
                   all_user_details, all_organizations_data, users_csv,
                   organizations_csv>>
    /\ UNCHANGED evars
    /\ UNCHANGED offDetail

\* A worker thread takes the oldest queued work item and sends its
\* requests.get; there are at most max_workers worker threads.
Start(t) ==
    /\ t \in Queued
    /\ \A u \in Queued : t <= u
    /\ WorkerFree
    /\ future_tasks' = [future_tasks EXCEPT ![t].state = "running"]
    /\ overrun' = (overrun \/ quota[future_tasks[t].token] > clock)
    /\ UNCHANGED <<quota, stuck, first>>
    /\ UNCHANGED <<users, organizations, max_workers, stage, mpc, gathered,
                   all_user_details, all_organizations_data, users_csv,
                   organizations_csv>>
    /\ UNCHANGED offDetail

\* The requests.get of task t returns or raises and the function runs to
\* its return; the future is done.
Finish(t) ==
    /\ t \in Running
    /\ t # stuck
    /\ \E kind \in Kinds, hdr \in QuotaHeaders(clock) :
          /\ ~HasHeaders(kind) => hdr = <<<<>>, <<>>>>
          /\ future_tasks' = [future_tasks EXCEPT
                 ![t].state = "done",
                 ![t].outcome = IF kind = "ok" THEN "ok" ELSE "failed",
                 ![t].result = TaskResult(kind, future_tasks[t].name)]
          /\ quota' = IF HasHeaders(kind) /\ hdr[1] = <<0>>
                      THEN [quota EXCEPT ![future_tasks[t].token] =
                               Max(@, HeaderInt(hdr[2]) * TicksPerSecond)]
                      ELSE quota
    /\ UNCHANGED <<overrun, stuck, first>>
    /\ UNCHANGED <<users, organizations, max_workers, stage, mpc, gathered,
                   all_user_details, all_organizations_data, users_csv,
                   organizations_csv>>
    /\ UNCHANGED offDetail

\* One step of [future.result() for future in future_tasks
\*              if future.result() is not None],
\* which runs once every identifier is submitted.  A future that holds an
\* exception raises it, and main's except clause logs it and returns.
Gather ==
    /\ mpc = "pool"
    /\ Len(future_tasks) = Len(Identifiers)
    /\ gathered < Len(future_tasks)
    /\ LET t == future_tasks[gathered + 1]
           r == t.result
       IN /\ Ready(t)
          /\ IF r.kind = "exception"
             THEN /\ mpc' = "aborted"
                  /\ UNCHANGED <<gathered, all_user_details, all_organizations_data>>
             ELSE /\ mpc' = mpc
                  /\ gathered' = gathered + 1
                  /\ IF stage = "users"
                     THEN /\ all_user_details' =
                                IF Kept(r) THEN Append(all_user_details, r)
                                ELSE all_user_details
                          /\ UNCHANGED all_organizations_data
                     ELSE /\ all_organizations_data' =
                                IF Kept(r) THEN Append(all_organizations_data, r)
                                ELSE all_organizations_data
                          /\ UNCHANGED all_user_details
    /\ UNCHANGED <<users, organizations, max_workers, stage, future_tasks,
                   users_csv, organizations_csv>>
    /\ UNCHANGED evars
    /\ UNCHANGED offDetail

\* Mutant of ExitPool: main goes on once every identifier is submitted,
\* waiting neither for the results nor for the workers.
ExitPoolEarly ==
    /\ mpc = "pool"
    /\ Len(future_tasks) = Len(Identifiers)
    /\ mpc' = "save"
    /\ UNCHANGED <<users, organizations, max_workers, stage, future_tasks, gathered,
                   all_user_details, all_organizations_data, users_csv,
                   organizations_csv>>
    /\ UNCHANGED evars
    /\ UNCHANGED offDetail

\* The with block ends: executor.shutdown(wait=True) returns once every
\* work item has run.
ExitPool ==
    /\ mpc = "pool"
    /\ Len(future_tasks) = Len(Identifiers)
    /\ gathered = Len(future_tasks)
    /\ AllDone
    /\ mpc' = "save"
    /\ UNCHANGED <<users, organizations, max_workers, stage, future_tasks, gathered,
                   all_user_details, all_organizations_data, users_csv,
                   organizations_csv>>
    /\ UNCHANGED evars
    /\ UNCHANGED offDetail

\* save_users_data_to_csv / save_organizations_data_to_csv: nothing is
\* written for an empty list; then main goes on to the next stage.
Save ==
    /\ mpc = "save"
    /\ IF stage = "users"
       THEN /\ users_csv' = IF all_user_details = <<>> THEN users_csv
                            ELSE [written |-> TRUE, rows |-> all_user_details]
            /\ stage' = "organizations"
            /\ mpc' = "pool"
            /\ future_tasks' = <<>>
            /\ gathered' = 0
            /\ UNCHANGED organizations_csv
       ELSE /\ organizations_csv' =
                  IF all_organizations_data = <<>> THEN organizations_csv
                  ELSE [written |-> TRUE, rows |-> all_organizations_data]
            /\ stage' = "finished"
            /\ mpc' = "return"
            /\ UNCHANGED <<users_csv, future_tasks, gathered>>
    /\ UNCHANGED <<users, organizations, max_workers, all_user_details,
                   all_organizations_data>>
    /\ UNCHANGED evars
    /\ UNCHANGED offDetail

NextDetail ==
    \/ Submit
    \/ \E t \in 1..Len(future_tasks) : Start(t)
    \/ \E t \in 1..Len(future_tasks) : Finish(t)
    \/ Gather
    \/ ExitPool
    \/ Save

SpecDetail == InitDetail /\ [][NextDetail]_vars

\* A user stage in which the requests.get of one task may never return (it
\* is called without a timeout).  The main thread and the worker threads keep
\* running: a step that can be taken is eventually taken.
InitStuck ==
    /\ DetailEntry
    /\ first = 0
    /\ stuck \in 0..Len(users)

SpecStuck == InitStuck /\ [][NextDetail]_vars /\ WF_vars(NextDetail)

\* ------------------------------------------------------------ main()
\* The runs of main that are followed: with no query, or with the first query
\* of main's list and one page of it.
MainQueryLists == {<<>>, SubSeq(QueryList, 1, 1)}

\* How many rows the repositories file holds when it is given as such.
MaxRows == 3

\* What os.getenv gives for a variable: None when it is unset, else its value.
TokenValues == {"unset", "", "ghp"}

\* Mutant of Falsy: only an unset variable counts as missing.
FalsyUnsetOnly(v) == v = "unset"

\* not v, for a value of os.getenv: None and the empty string are falsy.
Falsy(v) == v \in {"unset", ""}

\* if not access_token_1 or not access_token_2: raise ValueError
TokensMissing == Falsy(token_1) \/ Falsy(token_2)

\* The owners the search results can name: login and type.  An item with no
\* owner field gets the defaults 'N/A' and 'N/A'.
Owners == {[login |-> "alice", type |-> "User"],
           [login |-> "bob", type |-> "User"],
           [login |-> "null", type |-> "User"],
           [login |-> "acme", type |-> "Organization"],
           [login |-> "N/A", type |-> "N/A"]}

\* The rows of a repositories file an earlier run left behind.
EarlierRows == <<[item |-> <<0, 0, 0>>, login |-> "alice", type |-> "User"],
                 [item |-> <<0, 0, 1>>, login |-> "acme", type |-> "Organization"]>>

\* pandas.read_csv reads a cell holding one of its default missing-value
\* strings as NaN (some of them).
NaStrings == {"", "N/A", "NA", "NULL", "NaN", "n/a", "nan", "null"}
NaN == "<NaN>"
ReadCell(text) == IF text \in NaStrings THEN NaN ELSE text

\* Mutant of Unique: the column is returned as it is.
UniqueKeepsAll(col) == col

\* Series.unique(): the values in order of first appearance.
RECURSIVE Unique(_)
Unique(col) ==
    IF col = <<>> THEN <<>>
    ELSE LET u == Unique(SubSeq(col, 1, Len(col) - 1))
         IN IF \E k \in 1..Len(u) : u[k] = Last(col) THEN u
            ELSE Append(u, Last(col))

\* df[df["Owner Type"] == type]['Owner Username'].dropna(), on the rows as
\* read_csv reads them.
OwnerColumn(rows, type) ==
    LET ofType == SelectSeq(rows, LAMBDA r : ReadCell(r.type) = type)
        names == [k \in 1..Len(ofType) |-> ReadCell(ofType[k].login)]
    IN SelectSeq(names, LAMBDA x : x # NaN)

\* unique_users / unique_organizations of analyze_users_and_organizations
UniqueOwners(rows, type) == Unique(OwnerColumn(rows, type))

MainEntry ==
    /\ search_queries \in MainQueryLists
    /\ pages = 1
    /\ qi = 1
    /\ page = 1
    /\ pc = "notcalled"
    /\ response = NoResponse
    /\ result = "none"
    /\ repositories_list = <<>>
    /\ clock = StartSecond * TicksPerSecond
    /\ wakeAt = 0
    /\ limit = NoLimit
    /\ payload = [q |-> "", per_page |-> 0, page |-> 0]
    /\ issuedAt = 0
    /\ requests = <<>>
    /\ exhausted = 0
    /\ users = <<>>
    /\ organizations = <<>>
    /\ max_workers = DefaultWorkers
    /\ stage = "idle"
    /\ mpc = "idle"
    /\ future_tasks = <<>>
    /\ gathered = 0
    /\ all_user_details = <<>>
    /\ all_organizations_data = <<>>
    /\ users_csv = NoCsv
    /\ organizations_csv = NoCsv
    /\ QuotaIdle
    /\ token_1 \in TokenValues
    /\ token_2 \in TokenValues
    /\ main_pc = "load"
    /\ PureIdle

\* A run of main: a repositories file of an earlier run may be on disk.
InitMain ==
    /\ MainEntry
    /\ PoolWhole
    /\ repositories_csv \in {NoCsv, [written |-> TRUE, rows |-> EarlierRows]}

\* load_access_tokens and the first try of main: without both tokens main
\* logs the ValueError and returns; with them it calls
\* scrape_github_repositories.
LoadTokens ==
    /\ main_pc = "load"
    /\ IF TokensMissing
       THEN /\ main_pc' = "no_tokens"
            /\ pc' = pc
       ELSE /\ main_pc' = "scrape"
            /\ pc' = "loop"
    /\ UNCHANGED <<search_queries, pages, qi, page, response, result,
                   repositories_list, clock, wakeAt, limit, payload, issuedAt,
                   requests, exhausted>>
    /\ UNCHANGED <<token_1, token_2, repositories_csv>>
    /\ UNCHANGED <<dvars, evars, pvars>>

\* scrape_github_repositories returned and save_repositories_to_csv runs:
\* nothing is written for an empty list, else one row per item, with the
\* owner the item names.  The locals of the function that returned are gone.
SaveRepositories ==
    /\ main_pc = "scrape"
    /\ pc = "done"
    /\ IF repositories_list = <<>>
       THEN repositories_csv' = repositories_csv
       ELSE \E owner \in [1..Len(repositories_list) -> Owners] :
               repositories_csv' =
                   [written |-> TRUE,
                    rows |-> [k \in 1..Len(repositories_list) |->
                                 [item |-> repositories_list[k],
                                  login |-> owner[k].login,
                                  type |-> owner[k].type]]]
    /\ main_pc' = "analyze"
    /\ pc' = "returned"
    /\ qi' = 1
    /\ page' = 1
    /\ response' = NoResponse
    /\ result' = "none"
    /\ wakeAt' = 0
    /\ limit' = NoLimit
    /\ payload' = [q |-> "", per_page |-> 0, page |-> 0]
    /\ issuedAt' = 0
    /\ UNCHANGED <<search_queries, pages, repositories_list, clock, requests,
                   exhausted>>
    /\ UNCHANGED <<token_1, token_2>>
    /\ UNCHANGED <<dvars, evars, pvars>>

\* An exception left scrape_github_repositories: the except clause of main
\* logs it and returns.
ScrapeRaises ==
    /\ main_pc = "scrape"
    /\ pc = "raised"
    /\ main_pc' = "scrape_failed"
    /\ UNCHANGED <<token_1, token_2, repositories_csv>>
    /\ UNCHANGED <<cvars, dvars, evars, pvars>>

\* analyze_users_and_organizations('repositories_data.csv'): the file as it
\* is on disk; [], [] when there is none.  Then main opens the user pool.
Analyze ==
    /\ main_pc = "analyze"
    /\ users' = IF repositories_csv.written
                THEN UniqueOwners(repositories_csv.rows, "User") ELSE <<>>
    /\ organizations' = IF repositories_csv.written
                        THEN UniqueOwners(repositories_csv.rows, "Organization")
                        ELSE <<>>
    /\ main_pc' = "details"
    /\ stage' = "users"
    /\ mpc' = "pool"
    /\ UNCHANGED <<max_workers, future_tasks, gathered, all_user_details,
                   all_organizations_data, users_csv, organizations_csv>>
    /\ UNCHANGED <<token_1, token_2, repositories_csv>>
    /\ UNCHANGED <<cvars, evars, pvars>>

NextMain ==
    \/ LoadTokens
    \/ Next
    \/ SaveRepositories
    \/ ScrapeRaises
    \/ Analyze
    \/ NextDetail

SpecMain == InitMain /\ [][NextMain]_vars

\* main from the call of analyze_users_and_organizations on: the search
\* The repositories files analyze_users_and_organizations can find: none, or
\* up to MaxRows rows with any owners.
RowLists ==
    UNION {[1..n -> Owners] : n \in 1..MaxRows}
CsvFiles ==
    {NoCsv} \cup
    {[written |-> TRUE,
      rows |-> [k \in 1..Len(owner) |->
                   [item |-> <<1, 1, k>>, login |-> owner[k].login,
                    type |-> owner[k].type]]] : owner \in RowLists}

\* stage is over and the file on disk is given.
InitAnalyze ==
    /\ search_queries = <<>>
    /\ pages = 1
    /\ qi = 1
    /\ page = 1
    /\ pc = "returned"
    /\ response = NoResponse
    /\ result = "none"
    /\ repositories_list = <<>>
    /\ clock = StartSecond * TicksPerSecond
    /\ wakeAt = 0
    /\ limit = NoLimit
    /\ payload = [q |-> "", per_page |-> 0, page |-> 0]
    /\ issuedAt = 0
    /\ requests = <<>>
    /\ exhausted = 0
    /\ users = <<>>
    /\ organizations = <<>>
    /\ max_workers = DefaultWorkers
    /\ stage = "idle"
    /\ mpc = "idle"
    /\ future_tasks = <<>>
    /\ gathered = 0
    /\ all_user_details = <<>>
    /\ all_organizations_data = <<>>
    /\ users_csv = NoCsv
    /\ organizations_csv = NoCsv
    /\ QuotaIdle
    /\ PoolWhole
    /\ token_1 = "ghp"
    /\ token_2 = "ghp"
    /\ main_pc = "analyze"
    /\ repositories_csv \in CsvFiles
    /\ PureIdle

NextAnalyze == Analyze \/ NextDetail

SpecAnalyze == InitAnalyze /\ [][NextAnalyze]_vars

\* Runs of main seen around the token switch: users stands for main's users
\* list from position first on, the tasks of the users before it being left
\* out.
SplitPositions == {0, UserTokenSplit - 1, UserTokenSplit}

InitSplit ==
    /\ MainEntry
    /\ ~TokensMissing
    /\ repositories_csv \in CsvFiles
    /\ stuck = 0
    /\ first \in SplitPositions

SpecSplit == InitSplit /\ [][NextMain]_vars

\* ----------------------------------------- the repository row mapping
\* A JSON value of a raw record, or the cell of a row: its type, its text,
\* and its elements when it is a list.  Missing stands for a key the object
\* does not have, Null for JSON null / None.
Missing == [t |-> "missing", v |-> "", items |-> <<>>]
Null == [t |-> "null", v |-> "", items |-> <<>>]
Text(v) == [t |-> "str", v |-> v, items |-> <<>>]
Number(v) == [t |-> "int", v |-> v, items |-> <<>>]
List(items) == [t |-> "list", v |-> "", items |-> items]
Object(v) == [t |-> "object", v |-> v, items |-> <<>>]

\* The raw records the mapping is tried on: for each field the key may be
\* missing, null, or hold a value; owner holds an object with the login.
RawRepos ==
    [description : {Missing, Null, Text("a scraper")},
     size : {Missing, Null, Number("12")},
     stargazers_count : {Missing, Null, Number("7")},
     topics : {Missing, Null, List(<<>>), List(<<"web", "api">>)},
     owner : {Missing, Null, Object("alice")}]

\* Mutant of Get: the default is ignored, a missing key gives None.
GetNoDefault(d, key, default) == IF d[key] = Missing THEN Null ELSE d[key]

\* d.get(key, default): the default for a missing key only; a key that holds
\* null gives None.
Get(d, key, default) == IF d[key] = Missing THEN default ELSE d[key]

\* ', '.join(items)
RECURSIVE Join(_)
Join(items) ==
    IF items = <<>> THEN ""
    ELSE IF Len(items) = 1 THEN items[1]
    ELSE items[1] \o ", " \o Join(Tail(items))

\* The mapping raises: repo.get('owner', {}) is None and None has no get, or
\* repo.get('topics', []) is None and join cannot iterate it.
MapRaises(r) == r.owner = Null \/ r.topics = Null

\* repo.get('owner', {}).get('login', 'N/A')
OwnerLogin(r) == IF r.owner = Missing THEN Text("N/A") ELSE Text(r.owner.v)

NoRow == [status |-> "none", Owner_Username |-> Missing, Description |-> Missing,
          Size |-> Missing, Stars_Count |-> Missing, Topics |-> Missing]

\* One element of repository_records (five of its sixteen cells), or the
\* exception the comprehension raises, which save_repositories_to_csv logs.
MapRepo(r) ==
    IF MapRaises(r) THEN [NoRow EXCEPT !.status = "raised"]
    ELSE [status |-> "row",
          Owner_Username |-> OwnerLogin(r),
          Description |-> Get(r, "description", Text("N/A")),
          Size |-> Get(r, "size", Text("N/A")),
          Stars_Count |-> Get(r, "stargazers_count", Number("0")),
          Topics |-> Text(Join(Get(r, "topics", List(<<>>)).items))]

InitRow ==
    /\ DetailIdle
    /\ QuotaIdle
    /\ PoolWhole
    /\ MainIdle
    /\ search_queries = <<>>
    /\ pages = 1
    /\ qi = 1
    /\ page = 1
    /\ pc = "done"
    /\ response = NoResponse
    /\ result = "none"
    /\ repositories_list = <<>>
    /\ clock = StartSecond * TicksPerSecond
    /\ wakeAt = 0
    /\ limit = NoLimit
    /\ payload = [q |-> "", per_page |-> 0, page |-> 0]
    /\ issuedAt = 0
    /\ requests = <<>>
    /\ exhausted = 0
    /\ repo \in RawRepos
    /\ record = NoRow

\* The dict of the comprehension is built for repo.
MapRow ==
    /\ record.status = "none"
    /\ record' = MapRepo(repo)
    /\ UNCHANGED <<repo, cvars, dvars, evars, mvars>>

NextRow == MapRow

SpecRow == InitRow /\ [][NextRow]_vars

\* ------------------------------------------------ collector properties
\* The log entries of the query at position i.
RequestsOf(i) == SelectSeq(requests, LAMBDA r : r.qi = i)

\* The items of the returned list that came from the query at position i.
QueryItems(i) == SelectSeq(repositories_list, LAMBDA it : it[1] = i)

\* The items of the successful entries of a log, in the order of the log.
RECURSIVE ItemsOf(_)
ItemsOf(log) ==
    IF log = <<>> THEN <<>>
    ELSE ItemsOf(SubSeq(log, 1, Len(log) - 1))
         \o (IF Last(log).outcome = "ok"
             THEN PageItems(Last(log).qi, Last(log).page, Last(log).n)
             ELSE <<>>)

IsPrefix(s, t) == Len(s) <= Len(t) /\ SubSeq(t, 1, Len(s)) = s

\* C1: when the request for page p of the query at position i fails with a
\* RequestException, no later page of that query is requested, the next
\* request (if any) is page 1 of the query at position i+1, the items of all
\* earlier successful requests stay in the accumulator, and when the function
\* returns every later query had its page 1 requested.
C1_FailureAbandonsOnlyCurrentQuery ==
    \A k \in 1..Len(requests) :
        requests[k].outcome = "failed" =>
            /\ \A j \in 1..Len(requests) :
                   requests[j].qi = requests[k].qi => requests[j].page <= requests[k].page
            /\ k < Len(requests) =>
                   /\ requests[k + 1].qi = requests[k].qi + 1
                   /\ requests[k + 1].page = 1
            /\ IsPrefix(ItemsOf(SubSeq(requests, 1, k - 1)), repositories_list)
            /\ pc = "done" =>
                   \A i \in (requests[k].qi + 1)..Len(search_queries) :
                       \E j \in 1..Len(requests) :
                           requests[j].qi = i /\ requests[j].page = 1

\* C1 witness: page 2 of the first query failed after page 1 brought items,
\* the second query was processed, and the function returned.
C1_Witness ==
    /\ pc = "done"
    /\ Len(requests) >= 3
    /\ requests[1].outcome = "ok" /\ requests[1].n > 0
    /\ requests[2].outcome = "failed" /\ requests[2].qi = 1 /\ requests[2].page = 2
    /\ requests[3].qi = 2 /\ requests[3].outcome = "ok"
    /\ IsPrefix(PageItems(1, 1, requests[1].n), repositories_list)

\* C2: the requests are issued in the order of (query position, page): the
\* first is page 1 of query 1, and each next one is either the next page of
\* the same query or page 1 of the next query; the accumulator is at every
\* moment, and so on return, the concatenation of the item lists of the
\* successful requests in that order.
C2_RequestOrder ==
    /\ \A k \in 1..Len(requests) :
          IF k = 1
          THEN requests[k].qi = 1 /\ requests[k].page = 1
          ELSE \/ /\ requests[k].qi = requests[k - 1].qi
                  /\ requests[k].page = requests[k - 1].page + 1
               \/ /\ requests[k].qi = requests[k - 1].qi + 1
                  /\ requests[k].page = 1
    /\ repositories_list = ItemsOf(requests)
    /\ pc = "awaiting" =>
          /\ payload.q = search_queries[Last(requests).qi]
          /\ payload.page = Last(requests).page

\* C2 witness: two queries, each with a non-empty page, and more than one
\* page of the first, have been collected and returned.
C2_Witness ==
    /\ pc = "done"
    /\ Len(requests) >= 3
    /\ requests[1].n > 0
    /\ requests[2].qi = 1 /\ requests[2].outcome = "ok"
    /\ Last(requests).qi = 2 /\ Last(requests).n > 0

\* The scenario of C3 for the query at position i: no request of the query
\* failed, page 4 was requested, pages 1..3 were non-empty and every later
\* page was empty, and the query is over.
ThreePagesThenEmpty(i) ==
    /\ i \in 1..Len(search_queries)
    /\ pc = "done" \/ (pc = "loop" /\ qi > i)
    /\ Len(RequestsOf(i)) >= 4
    /\ \A k \in 1..Len(RequestsOf(i)) :
          /\ RequestsOf(i)[k].outcome = "ok"
          /\ RequestsOf(i)[k].page <= 3 => RequestsOf(i)[k].n > 0
          /\ RequestsOf(i)[k].page > 3 => RequestsOf(i)[k].n = 0

\* C3 as stated: in that scenario exactly 4 requests are issued for the query.
C3_Original ==
    \A i \in 1..Len(search_queries) :
        ThreePagesThenEmpty(i) => Len(RequestsOf(i)) = 4

\* C3 as amended: in that scenario the Collector issues exactly pages
\* requests for the query, for pages 1..pages in that order (4 of them only
\* when pages = 4: the empty page does not end the query), and the items it
\* returns for the query are those of pages 1, 2 and 3, concatenated.
C3_Amended ==
    \A i \in 1..Len(search_queries) :
        ThreePagesThenEmpty(i) =>
            /\ Len(RequestsOf(i)) = pages
            /\ \A k \in 1..Len(RequestsOf(i)) : RequestsOf(i)[k].page = k
            /\ pages = 4 => Len(RequestsOf(i)) = 4
            /\ QueryItems(i) = PageItems(i, 1, RequestsOf(i)[1].n)
                               \o PageItems(i, 2, RequestsOf(i)[2].n)
                               \o PageItems(i, 3, RequestsOf(i)[3].n)

\* C3 witness: the scenario happened with pages = 5, and five requests.
C3_Witness ==
    /\ pages = 5
    /\ ThreePagesThenEmpty(1)
    /\ Len(RequestsOf(1)) = 5
    /\ Len(repositories_list) >= 3

\* C4: a successful response with no items adds nothing to the accumulator
\* and does not abandon the query: the loop goes on with the next page of the
\* same query, or with the next query when the page was the last one.
C4_EmptyPageContinues ==
    \A k \in 1..Len(requests) :
        (requests[k].outcome = "ok" /\ requests[k].n = 0) =>
            /\ k = Len(requests) =>
                  /\ repositories_list = ItemsOf(SubSeq(requests, 1, k - 1))
                  /\ pc \in {"sleeping", "loop", "done"}
                  /\ pc = "sleeping" => qi = requests[k].qi /\ page = requests[k].page
                  /\ pc \in {"loop", "done"} =>
                        IF requests[k].page < pages
                        THEN qi = requests[k].qi /\ page = requests[k].page + 1
                        ELSE qi = requests[k].qi + 1 /\ page = 1
            /\ k < Len(requests) =>
                  IF requests[k].page < pages
                  THEN /\ requests[k + 1].qi = requests[k].qi
                       /\ requests[k + 1].page = requests[k].page + 1
                  ELSE /\ requests[k + 1].qi = requests[k].qi + 1
                       /\ requests[k + 1].page = 1

\* C4 witness: after an empty page the next page of the same query was
\* requested, and it brought items.
C4_Witness ==
    \E k \in 1..(Len(requests) - 1) :
        /\ requests[k].outcome = "ok" /\ requests[k].n = 0
        /\ requests[k + 1].qi = requests[k].qi
        /\ requests[k + 1].outcome = "ok" /\ requests[k + 1].n > 0

\* C5 as stated: whenever the rate-limit check finds remaining = 0 and a
\* reset time that is not after the clock, the wait is 0.
C5_Original ==
    (limit.waited /\ limit.reset_time * TicksPerSecond <= limit.now) =>
        limit.slept = 0 /\ wakeAt = limit.now

\* C5 as amended: whenever the rate-limit check finds remaining = 0, the
\* duration slept is never negative; it is 0 when the reset time is at least
\* one second before the clock; when the reset time equals the clock it is
\* one second.
C5_Amended ==
    limit.waited =>
        /\ limit.slept >= 0
        /\ wakeAt >= limit.now
        /\ limit.reset_time * TicksPerSecond + TicksPerSecond <= limit.now =>
              limit.slept = 0 /\ wakeAt = limit.now
        /\ limit.reset_time * TicksPerSecond = limit.now =>
              limit.slept = TicksPerSecond /\ wakeAt = limit.now + TicksPerSecond

\* C5 witness: a reset header more than a second in the past was waited on.
C5_Witness ==
    /\ limit.waited
    /\ limit.reset_time > 0
    /\ limit.reset_time * TicksPerSecond + TicksPerSecond < limit.now
    /\ limit.sleep_duration < 0
    /\ wakeAt = limit.now

\* C6: for every response the rate-limit check runs on (a response that did
\* not raise): when its remaining quota is 0 the sleep lasts
\* max(reset - now + 1, 0) seconds, 31 seconds when reset = now + 30; when its
\* remaining quota is greater than 0 there is no sleep.
C6_WaitFormula ==
    (result = "ok" /\ pc \in {"sleeping", "loop", "done"}) =>
        /\ limit.checked
        /\ IF HeaderInt(response.remaining) = 0
           THEN /\ limit.waited
                /\ wakeAt - limit.now =
                      Max(HeaderInt(response.reset) * TicksPerSecond
                          - limit.now + TicksPerSecond, 0)
                /\ HeaderInt(response.reset) * TicksPerSecond
                      = limit.now + 30 * TicksPerSecond
                   => wakeAt - limit.now = 31 * TicksPerSecond
                /\ pc = "sleeping" => clock = limit.now
                /\ pc \in {"loop", "done"} => clock = wakeAt
           ELSE /\ ~limit.waited
                /\ pc # "sleeping"
                /\ clock = limit.now

\* C6 witness: a response with remaining = 0 and reset = now + 30 was slept
\* on for 31 seconds.
C6_Witness ==
    /\ result = "ok"
    /\ pc = "loop"
    /\ response.remaining = <<0>>
    /\ HeaderInt(response.reset) * TicksPerSecond = limit.now + 30 * TicksPerSecond
    /\ clock = limit.now + 31 * TicksPerSecond

\* C7: when a successful response reports remaining = 0, its items are in
\* the accumulator when the sleep begins, no request is in flight during the
\* sleep, and the next request is sent only when the whole sleep is over.
C7_WaitAfterResult ==
    /\ pc = "sleeping" =>
          /\ result = "ok"
          /\ HeaderInt(response.remaining) = 0
          /\ \A k \in 1..Len(requests) : requests[k].outcome # "pending"
          /\ Last(requests).outcome = "ok"
          /\ Len(repositories_list) >= Last(requests).n
          /\ SubSeq(repositories_list,
                    Len(repositories_list) - Last(requests).n + 1,
                    Len(repositories_list))
                = PageItems(Last(requests).qi, Last(requests).page, Last(requests).n)
    /\ (pc = "awaiting" /\ limit.waited) =>
          issuedAt >= limit.now + limit.slept

\* C7 witness: the request after a sleep of more than nothing is in flight,
\* and the page that triggered the sleep brought items.
C7_Witness ==
    /\ pc = "awaiting"
    /\ result = "ok"
    /\ limit.waited
    /\ limit.slept > 0
    /\ issuedAt = limit.now + limit.slept
    /\ Len(requests) >= 2
    /\ requests[Len(requests) - 1].n > 0
    /\ Len(repositories_list) > 0

\* C8 as stated: when an HTTP-error response reports remaining = 0, the next
\* request is not sent before the reset time of that response.
C8_WaitAfterHttpError ==
    (/\ pc = "awaiting"
     /\ result = "http_error"
     /\ response.remaining = <<0>>
     /\ response.reset # <<>>) =>
        issuedAt >= response.reset[1] * TicksPerSecond

\* --------------------------------------------- detail stage properties
\* The list the running stage builds.
Details == IF stage = "users" THEN all_user_details ELSE all_organizations_data

\* The result comprehension of the running stage has read every future.
ListComplete ==
    \/ mpc = "save"
    \/ /\ mpc = "pool"
       /\ Len(future_tasks) = Len(Identifiers)
       /\ gathered = Len(future_tasks)

Count(x, seq) == Cardinality({j \in 1..Len(seq) : seq[j] = x})

\* C9: for every list of identifiers, every set of failing fetches and every
\* pool size, a detail stage never raises and never gets stuck; a task whose
\* fetch succeeded ends with its dict and one whose fetch failed with None,
\* whatever its siblings did; and the list the stage builds holds exactly one
\* record for each identifier whose fetch succeeded and none for the others.
C9_FailureIsolation ==
    /\ mpc # "aborted"
    /\ stage # "finished" => ENABLED NextDetail
    /\ \A t \in 1..Len(future_tasks) :
          future_tasks[t].state = "done" =>
              /\ future_tasks[t].outcome = "ok" =>
                    future_tasks[t].result = Dict(future_tasks[t].name)
              /\ future_tasks[t].outcome = "failed" =>
                    future_tasks[t].result = None
    /\ (stage \in {"users", "organizations"} /\ ListComplete) =>
          /\ \A t \in 1..Len(future_tasks) :
                Count(Dict(future_tasks[t].name), Details)
                   = IF future_tasks[t].outcome = "ok" THEN 1 ELSE 0
          /\ Len(Details)
                = Cardinality({t \in 1..Len(future_tasks) :
                                   future_tasks[t].outcome = "ok"})
          /\ \A j \in 1..Len(Details) : Details[j].kind = "dict"

\* C9 witness: of three users the second failed and the others succeeded,
\* with a single worker, and the stage built a list of two records.
C9_Witness ==
    /\ stage = "users"
    /\ mpc = "save"
    /\ max_workers = 1
    /\ Len(future_tasks) = 3
    /\ future_tasks[1].outcome = "ok"
    /\ future_tasks[2].outcome = "failed"
    /\ future_tasks[3].outcome = "ok"
    /\ Len(all_user_details) = 2

\* C10: the result list of a stage is complete, and its CSV file is written,
\* only when every task the stage dispatched is done: every future the
\* comprehension has read is done, when it has read them all every identifier
\* was dispatched and every task is done, and a stage's file does not exist
\* before the stage has left its pool.
C10_ReturnsAfterAllTasks ==
    /\ \A t \in 1..Len(future_tasks) :
          t <= gathered => future_tasks[t].state = "done"
    /\ (stage \in {"users", "organizations"} /\ ListComplete) =>
          /\ Len(future_tasks) = Len(Identifiers)
          /\ AllDone
    /\ users_csv.written => stage \in {"organizations", "finished"}
    /\ organizations_csv.written => stage = "finished"
    /\ stage = "users" => all_organizations_data = <<>>

\* C10 witness: three tasks went through a pool of two workers and all are
\* done when the list is complete and about to be saved.
C10_Witness ==
    /\ stage = "users"
    /\ mpc = "save"
    /\ max_workers = 2
    /\ Len(future_tasks) = 3
    /\ AllDone
    /\ Len(all_user_details) = 3

\* C11: in every state of a detail stage the number of detail requests in
\* flight is at most the pool size, whatever the number of identifiers; a task
\* waiting for its response holds one worker, and while every worker is held
\* the tasks beyond the pool size stay queued: none of them can be started.
C11_InFlightBounded ==
    mpc = "pool" =>
        /\ Cardinality(Running) <= max_workers
        /\ Cardinality(Running) = max_workers =>
               \A t \in Queued : ~ENABLED Start(t)

\* The pool is full and a submitted task waits for a worker.
C11_Witness ==
    /\ mpc = "pool"
    /\ Len(Identifiers) > max_workers
    /\ Cardinality(Running) = max_workers
    /\ Queued # {}

\* The Owner Username column the running stage was drawn from, repeats
\* included, and the names of the tasks submitted so far.
StageColumn ==
    OwnerColumn(repositories_csv.rows,
                IF stage = "users" THEN "User" ELSE "Organization")
TaskNames == [t \in 1..Len(future_tasks) |-> future_tasks[t].name]

\* C12: the identifier column a detail stage starts from may hold repeats, and
\* it is deduplicated before dispatch: no identifier is submitted twice or
\* contributes two detail records, nothing outside the column is fetched, and
\* when the pool has finished every distinct identifier of the column was
\* fetched exactly once.
C12_DedupBeforeDispatch ==
    (main_pc = "details" /\ stage \in {"users", "organizations"}) =>
        /\ \A t \in 1..Len(TaskNames) :
               \E k \in 1..Len(StageColumn) : StageColumn[k] = TaskNames[t]
        /\ \A k \in 1..Len(StageColumn) :
               /\ Count(StageColumn[k], TaskNames) <= 1
               /\ Count(Dict(StageColumn[k]), Details) <= 1
               /\ mpc = "save" =>
                     /\ Count(StageColumn[k], TaskNames) = 1
                     /\ future_tasks[CHOOSE t \in 1..Len(TaskNames) :
                            TaskNames[t] = StageColumn[k]].state = "done"

\* The user column named one owner twice, the pool has finished and the
\* owner's one record was gathered.
C12_Witness ==
    /\ main_pc = "details"
    /\ stage = "users"
    /\ mpc = "save"
    /\ \E j, k \in 1..Len(StageColumn) : j < k /\ StageColumn[j] = StageColumn[k]
    /\ all_user_details # <<>>

\* C13: the token of a request depends on nothing but the kind of request and,
\* for a user, the position i of the user in main's list: token 1 for every
\* search request, token 1 for the user at i < 4000 and token 2 at i >= 4000,
\* token 2 for every organization.  It holds in every state, so no outcome
\* of another task and no order of execution changes it.
C13_TokenByPosition ==
    /\ \A k \in 1..Len(requests) : requests[k].token = 1
    /\ \A t \in 1..Len(future_tasks) :
          LET i == first + t - 1
          IN /\ (stage = "users" /\ i < UserTokenSplit) => future_tasks[t].token = 1
             /\ (stage = "users" /\ i >= UserTokenSplit) => future_tasks[t].token = 2
             /\ stage = "organizations" => future_tasks[t].token = 2

\* After a search request on token 1, users 3999 and 4000 are both
\* submitted, the first with token 1 and the second with token 2; the second
\* has failed while the first is still running.
C13_Witness ==
    /\ requests # <<>>
    /\ requests[1].token = 1
    /\ stage = "users"
    /\ first = UserTokenSplit - 1
    /\ Len(future_tasks) = 2
    /\ future_tasks[1].token = 1
    /\ future_tasks[2].token = 2
    /\ future_tasks[1].state = "running"
    /\ future_tasks[2].outcome = "failed"

\* A token the environment does not give: the variable is unset or empty.
Absent(v) == v = "unset" \/ v = ""

\* C14: in a run where either token is absent, main ends at the credential
\* check with its own error, which no other run ends with, and no network
\* request is ever issued: no search request and no detail task.
C14_NoRequestWithoutTokens ==
    /\ (Absent(token_1) \/ Absent(token_2)) =>
          /\ main_pc \in {"load", "no_tokens"}
          /\ requests = <<>>
          /\ pc = "notcalled"
          /\ future_tasks = <<>>
          /\ stage = "idle"
          /\ main_pc = "no_tokens" => ~ENABLED NextMain
    /\ main_pc = "no_tokens" => (Absent(token_1) \/ Absent(token_2))

\* main has returned at the credential check: token_1 is set, token_2 is empty.
C14_Witness ==
    /\ main_pc = "no_tokens"
    /\ token_1 = "ghp"
    /\ token_2 = ""

\* A body that is not the expected JSON object: no JSON at all, or JSON that
\* is not an object.
Malformed == {"not_json", "not_object"}

\* C15: a response body without the expected JSON shape fails its own unit
\* only.  In the collector the page adds nothing, the list keeps the items of
\* the earlier pages and queries, and the loop goes on to the next query; in
\* a detail stage the task gives no record and no exception reaches main; and
\* a run that loaded its tokens ends only after both detail stages.
C15_MalformedBodyIsOneUnit ==
    /\ (result \in Malformed /\ pc # "awaiting") =>
          /\ pc \in {"loop", "done"}
          /\ repositories_list = ItemsOf(requests)
    /\ \A t \in 1..Len(future_tasks) :
          future_tasks[t].result.kind # "exception"
    /\ (main_pc \notin {"load", "no_tokens"} /\ ~ENABLED NextMain) =>
          stage = "finished"

\* C16: once the tokens are loaded, whatever the pages and the identifiers
\* answer, the run does not stop before its end: until the organization stage
\* has saved there is always a next step, also after a stage that collected
\* nothing or had failures, and at the end each detail file holds what its
\* stage collected (no file for an empty list).
C16_EveryStageRuns ==
    /\ main_pc \notin {"load", "no_tokens"} =>
          (stage = "finished" \/ ENABLED NextMain)
    /\ stage = "finished" =>
          /\ users_csv = (IF all_user_details = <<>> THEN NoCsv
                          ELSE [written |-> TRUE, rows |-> all_user_details])
          /\ organizations_csv =
                (IF all_organizations_data = <<>> THEN NoCsv
                 ELSE [written |-> TRUE, rows |-> all_organizations_data])

\* C17: quota is honoured per token by the detail fetches: once a response on
\* a token has reported remaining quota 0 with a reset tick still ahead, no
\* task sends a request on that token before that tick.
C17_QuotaHonoured == ~overrun

\* Every user task but the stuck one has been submitted and is done.
OthersDone ==
    \A t \in 1..Len(users) :
        t # stuck => (t <= Len(future_tasks) /\ future_tasks[t].state = "done")

\* C18: a task blocked on its network call holds one worker and no more: when
\* the pool has at least 2 workers and the call of one task never returns,
\* every other task of the stage is still given a worker and completes.
C18_BlockedTaskHoldsOneWorker ==
    (max_workers >= 2 /\ stuck # 0) => <>OthersDone

\* A pool of 2 workers and 3 users: the second task is stuck on its call and
\* the other two have completed on the remaining worker.
C18_Witness ==
    /\ max_workers = 2
    /\ Len(users) = 3
    /\ stuck = 2
    /\ Running = {2}
    /\ OthersDone

\* C19: scrape_github_repositories always ends by returning: in every state
\* it has returned or has a next step (each request returning or failing),
\* and when it has returned, page 1 of every query of the input was requested
\* and the list returned is the accumulated one.
C19_ReturnsAfterEveryQuery ==
    /\ pc = "done" \/ ENABLED Next
    /\ pc = "done" =>
          /\ \A i \in 1..Len(search_queries) :
                \E k \in 1..Len(requests) :
                    requests[k].qi = i /\ requests[k].page = 1
          /\ repositories_list = ItemsOf(requests)

\* The cells of a row, and the field of the raw record each is read from.
RowCells == {"Description", "Size", "Stars_Count", "Topics", "Owner_Username"}
FieldOf(cell) ==
    CASE cell = "Description" -> "description"
      [] cell = "Size" -> "size"
      [] cell = "Stars_Count" -> "stargazers_count"
      [] cell = "Topics" -> "topics"
      [] cell = "Owner_Username" -> "owner"

\* C20: in the row built from a raw record, a missing stargazers_count gives
\* the stars cell the integer 0, a missing description gives the description
\* cell the string "N/A", and no cell whose field is missing from the record
\* is absent or null.
C20_MissingFieldDefaults ==
    record.status = "row" =>
        /\ repo.stargazers_count = Missing => record.Stars_Count = Number("0")
        /\ repo.description = Missing => record.Description = Text("N/A")
        /\ \A cell \in RowCells :
              repo[FieldOf(cell)] = Missing =>
                  record[cell].t \notin {"missing", "null"}

\* The row of a record that has neither stargazers_count nor description.
C20_Witness ==
    /\ record.status = "row"
    /\ repo.stargazers_count = Missing
    /\ repo.description = Missing
    /\ repo.topics = Missing
    /\ repo.owner # Missing

\* C21: a query whose requests all succeed is requested pages times, a query
\* whose first failing request is the one for page p is requested p times;
\* its requests are for pages 1, 2, ... in order, no request is for a page
\* above pages, and every request is sent with per_page = 100.
C21_RequestsPerQuery ==
    /\ \A k \in 1..Len(requests) : requests[k].page \in 1..pages
    /\ pc = "awaiting" =>
          /\ payload.per_page = PerPage
          /\ payload.page = Last(requests).page
          /\ payload.q = search_queries[Last(requests).qi]
    /\ \A i \in 1..Len(search_queries) :
          (i < qi \/ pc = "done") =>
              LET r == RequestsOf(i)
                  failing == {k \in 1..Len(r) : r[k].outcome # "ok"}
              IN /\ \A k \in 1..Len(r) : r[k].page = k
                 /\ failing = {} => Len(r) = pages
                 /\ failing # {} => failing = {Len(r)}

\* The call has returned with pages = 2: one query was requested twice with
\* no failure, the other one once, its request for page 1 failing.
C21_Witness ==
    /\ pc = "done"
    /\ pages = 2
    /\ \E i, j \in 1..Len(search_queries) :
          /\ Len(RequestsOf(i)) = 2
          /\ \A k \in 1..2 : RequestsOf(i)[k].outcome = "ok"
          /\ Len(RequestsOf(j)) = 1
          /\ RequestsOf(j)[1].outcome = "failed"

\* The collector is inside its call.
Collecting == pc \in {"loop", "awaiting", "sleeping"}

\* In every state: detail tasks exist only after the collector has returned
\* and the analysis has produced the lists, and they are tasks of the stage
\* that runs, one per identifier of its list.
StagesApart ==
    /\ Collecting => (stage = "idle" /\ future_tasks = <<>>)
    /\ (stage # "idle" \/ future_tasks # <<>>) =>
          (pc = "returned" /\ main_pc = "details")
    /\ \A t \in 1..Len(future_tasks) :
          /\ t <= Len(Identifiers)
          /\ future_tasks[t].name = Identifiers[t]

\* In every step: the stage moves on only from the analysis to the user
\* stage, from the user stage to the organization stage and from there to
\* the end, and it leaves a detail stage only when every identifier of the
\* stage was submitted and every task is done.
StagesInTurn ==
    stage' # stage =>
        /\ <<stage, stage'>> \in {<<"idle", "users">>, <<"users", "organizations">>,
                                  <<"organizations", "finished">>}
        /\ stage = "idle" => (pc = "returned" /\ main_pc = "analyze")
        /\ stage # "idle" => (Len(future_tasks) = Len(Identifiers) /\ AllDone)

\* C22: the stages of a run are strictly sequential: no detail request before
\* the collector has returned and the identifiers are extracted, no
\* organization request before every user task has completed, and never
\* tasks of both pools at once.
C22_StagesSequential == []StagesApart /\ [][StagesInTurn]_vars

\* After a search request the user stage has run and saved its record, and
\* an organization request is in flight.
C22_Witness ==
    /\ requests # <<>>
    /\ stage = "organizations"
    /\ users_csv.written
    /\ Running # {}

\* The owners of the records the search stage of this run collected, as
\* save_repositories_to_csv wrote them.
CollectedOwners ==
    {repositories_csv.rows[k].login :
        k \in {j \in 1..Len(repositories_csv.rows) :
                 \E m \in 1..Len(repositories_list) :
                     repositories_list[m] = repositories_csv.rows[j].item}}

\* C23: every identifier a detail stage looks up is the owner of a record
\* the search stage of the same run collected; a run whose search stage
\* collected nothing submits no detail task, whatever file is on disk.
C23_LookupsFromThisRun ==
    /\ \A t \in 1..Len(future_tasks) : future_tasks[t].name \in CollectedOwners
    /\ (main_pc = "details" /\ repositories_list = <<>>) => future_tasks = <<>>

\* The records of the first g tasks that succeeded, in submission order.
RecordsInOrder(g) ==
    LET ok == SelectSeq(SubSeq(future_tasks, 1, g), LAMBDA t : t.outcome = "ok")
    IN [k \in 1..Len(ok) |-> Dict(ok[k].name)]

\* C24: the list a detail stage builds is in submission order: the tasks are
\* the identifiers of the input list in its order, and the list is the
\* records of the tasks read so far that succeeded, in that order, so at the
\* end it is the input list with the failed identifiers removed, whatever
\* the order in which the tasks completed and whatever the pool size.
C24_RecordsInSubmissionOrder ==
    stage \in {"users", "organizations"} =>
        /\ \A t \in 1..Len(future_tasks) : future_tasks[t].name = Identifiers[t]
        /\ Details = RecordsInOrder(gathered)
        /\ mpc = "save" => gathered = Len(Identifiers)

\* Three users on two workers: the second failed, and the list holds the
\* records of the first and the third, in that order.
C24_Witness ==
    /\ stage = "users"
    /\ mpc = "save"
    /\ max_workers = 2
    /\ Len(users) = 3
    /\ future_tasks[2].outcome = "failed"
    /\ all_user_details = <<Dict(users[1]), Dict(users[3])>>

\* C25: the collector never retries: within one call no two requests are for
\* the same page of the same query position, whether the earlier one
\* succeeded, failed or was followed by a rate-limit wait.
C25_NoRetry ==
    \A j, k \in 1..Len(requests) :
        j < k => <<requests[j].qi, requests[j].page>> #
                 <<requests[k].qi, requests[k].page>>

\* The call has returned after a failed request, a successful one and a
\* rate-limit wait on its last response.
C25_Witness ==
    /\ pc = "done"
    /\ \E k \in 1..Len(requests) : requests[k].outcome = "failed"
    /\ \E k \in 1..Len(requests) : requests[k].outcome = "ok"
    /\ limit.waited
    /\ limit.slept > 0

\* The last request succeeded and its response carries neither
\* X-RateLimit-Remaining nor X-RateLimit-Reset.
OkWithoutQuotaHeaders ==
    /\ result = "ok"
    /\ response.remaining = <<>>
    /\ response.reset = <<>>

\* C26: a successful response without quota headers is read as remaining 0
\* and reset time 0: the sleep is of length 0 (the clock being past second
\* 1), the items of the page are in the list, and the loop goes on with the
\* next page of the same query, the query not being abandoned.
C26_NoHeadersWaitZero ==
    (OkWithoutQuotaHeaders /\ pc \in {"sleeping", "loop", "done"}) =>
        /\ limit.checked /\ limit.waited
        /\ limit.remaining = 0
        /\ limit.reset_time = 0
        /\ limit.slept = 0
        /\ clock = limit.now
        /\ pc = "sleeping" => wakeAt = clock
        /\ Last(requests).outcome = "ok"
        /\ repositories_list = ItemsOf(requests)
        /\ pc = "sleeping" =>
              <<qi, page>> = <<Last(requests).qi, Last(requests).page>>
        /\ pc # "sleeping" =>
              <<qi, page>> = AfterPage(Last(requests).qi, Last(requests).page)

\* Page 1 came without quota headers and with an item; the item is in the
\* list and the loop stands at page 2 of the same query.
C26_Witness ==
    /\ OkWithoutQuotaHeaders
    /\ pc = "loop"
    /\ Last(requests).page = 1
    /\ Last(requests).n > 0
    /\ qi = Last(requests).qi
    /\ page = 2
    /\ Len(repositories_list) > 0

\* The last request was for the last page of the last query; it succeeded
\* and its response reports remaining quota 0 and a reset time still ahead
\* when it was read.
LastPageExhausted ==
    /\ requests # <<>>
    /\ Last(requests).qi = Len(search_queries)
    /\ Last(requests).page = pages
    /\ result = "ok"
    /\ response.remaining = <<0>>
    /\ response.reset # <<>>
    /\ pc \in {"sleeping", "loop", "done"}
    /\ HeaderInt(response.reset) * TicksPerSecond > limit.now

\* C27: the wait does not depend on a request remaining: after the last page
\* of the last query has reported remaining 0 and a reset time ahead, the
\* function sleeps until reset + 1 and returns only then.
C27_WaitBeforeReturn ==
    LastPageExhausted =>
        /\ limit.waited
        /\ limit.reset_time = HeaderInt(response.reset)
        /\ wakeAt = (limit.reset_time + 1) * TicksPerSecond
        /\ pc = "sleeping" => (clock = limit.now /\ clock < wakeAt)
        /\ pc # "sleeping" => clock = wakeAt
        /\ ~(pc = "sleeping" /\ ENABLED Return)

\* The function has returned after the wait that followed its last response.
C27_Witness ==
    /\ LastPageExhausted
    /\ pc = "done"
    /\ Len(search_queries) = 2
    /\ limit.slept > 0
    /\ clock = (HeaderInt(response.reset) + 1) * TicksPerSecond

====
